---- MODULE Spec2Model ----
(***************************************************************************)
(* Object-storage gateway: discovery of the Minio containers from the      *)
(* Docker daemon, routing of an object id to one instance, and the calls   *)
(* made on the selected instance.                                          *)
(*                                                                         *)
(* Strings that the code parses (container names, environment variables)   *)
(* are sequences of one-character strings; object ids are sequences of     *)
(* bytes, as hashId reads them.  Errors are sequences of messages, the     *)
(* outermost wrap first and the cause last; the empty sequence is nil.     *)
(***************************************************************************)
EXTENDS Integers, Sequences, FiniteSets, TLC

\* ---------------------------------------------------------------------------
\* Bounds of the model
\* ---------------------------------------------------------------------------

\* Largest number of containers the Docker daemon runs at once.
MaxRunning == 2

\* Largest ordinal N of a container name amazin-object-storage-node-<N>.
MaxOrdinal == 11

\* Largest replica number docker compose appends to a container name.
MaxReplica == 2

\* ---------------------------------------------------------------------------
\* strings (Go package strings / strconv, as used by the discovery service)
\* ---------------------------------------------------------------------------

HasPrefix(s, p) == Len(p) <= Len(s) /\ SubSeq(s, 1, Len(p)) = p

HasSuffix(s, p) == Len(p) <= Len(s) /\ SubSeq(s, Len(s) - Len(p) + 1, Len(s)) = p

TrimPrefix(s, p) == IF HasPrefix(s, p) THEN SubSeq(s, Len(p) + 1, Len(s)) ELSE s

TrimSuffix(s, p) == IF HasSuffix(s, p) THEN SubSeq(s, 1, Len(s) - Len(p)) ELSE s

Contains(s, sub) == \E i \in 0..(Len(s) - Len(sub)) : SubSeq(s, i + 1, i + Len(sub)) = sub

RECURSIVE TrimLeft(_, _)
TrimLeft(s, c) == IF s # <<>> /\ Head(s) = c THEN TrimLeft(Tail(s), c) ELSE s

RECURSIVE TrimRight(_, _)
TrimRight(s, c) ==
    IF s # <<>> /\ s[Len(s)] = c THEN TrimRight(SubSeq(s, 1, Len(s) - 1), c) ELSE s

\* strings.Trim(s, cutset) for a one-character cutset
Trim(s, c) == TrimRight(TrimLeft(s, c), c)

\* strings.Split(s, sep) for a one-character separator: the pieces between
\* the separators, empty pieces included.
RECURSIVE SplitFrom(_, _, _)
SplitFrom(s, c, cur) ==
    IF s = <<>> THEN <<cur>>
    ELSE IF Head(s) = c THEN <<cur>> \o SplitFrom(Tail(s), c, <<>>)
    ELSE SplitFrom(Tail(s), c, Append(cur, Head(s)))

Split(s, c) == SplitFrom(s, c, <<>>)

Digits ==
    [d \in {"0", "1", "2", "3", "4", "5", "6", "7", "8", "9"} |->
        CASE d = "0" -> 0 [] d = "1" -> 1 [] d = "2" -> 2 [] d = "3" -> 3
          [] d = "4" -> 4 [] d = "5" -> 5 [] d = "6" -> 6 [] d = "7" -> 7
          [] d = "8" -> 8 [] d = "9" -> 9]

RECURSIVE DecimalValue(_, _)
DecimalValue(s, acc) ==
    IF s = <<>> THEN acc ELSE DecimalValue(Tail(s), acc * 10 + Digits[Head(s)])

\* strconv.Atoi: an optional sign followed by at least one decimal digit and
\* nothing else; anything else is a syntax error.
Atoi(s) ==
    LET signed == s # <<>> /\ Head(s) \in {"+", "-"}
        body   == IF signed THEN Tail(s) ELSE s
    IN  IF body = <<>> \/ \E i \in 1..Len(body) : body[i] \notin DOMAIN Digits
        THEN [val |-> 0, err |-> <<"strconv.Atoi: invalid syntax">>]
        ELSE [val |-> IF signed /\ Head(s) = "-" THEN 0 - DecimalValue(body, 0)
                      ELSE DecimalValue(body, 0),
              err |-> <<>>]

\* The elements of a sequence.
Range(seq) == { seq[i] : i \in 1..Len(seq) }

\* ---------------------------------------------------------------------------
\* errors (github.com/pkg/errors and the standard errors package)
\* ---------------------------------------------------------------------------

nil == <<>>

\* errors.New(msg)
New(msg) == <<msg>>

\* errors.Wrap(err, msg): nil stays nil, otherwise err gains an outer message.
Wrap(err, msg) == IF err = nil THEN nil ELSE <<msg>> \o err

\* errors.Is(err, target) for a sentinel target: unwrapping err reaches it.
\* Only the cause of a chain is an error value of its own; the wraps are
\* messages around it.
Is(err, target) == err # nil /\ <<err[Len(err)]>> = target

\* ---------------------------------------------------------------------------
\* hashId: FNV-1a, 64 bit (hash/fnv New64a).  A 64-bit word is kept as its
\* eight bytes, least significant first, so that no intermediate value
\* leaves the range of the model checker's integers.
\* ---------------------------------------------------------------------------

\* offset64 = 14695981039346656037 = 0xcbf29ce484222325
offset64 == <<37, 35, 34, 132, 228, 156, 242, 203>>

\* prime64 = 1099511628211 = 2^40 + 435
prime64Low == 435

prime64Shift == 5

RECURSIVE XorBits(_, _, _)
XorBits(a, b, n) ==
    IF n = 0 THEN 0
    ELSE (((a % 2) + (b % 2)) % 2) + 2 * XorBits(a \div 2, b \div 2, n - 1)

\* hash ^= uint64(c)
XorByte(h, c) == [h EXCEPT ![1] = XorBits(h[1], c, 8)]

\* hash *= prime64, modulo 2^64
RECURSIVE MulCarry(_, _, _)
MulCarry(h, i, carry) ==
    IF i > 8 THEN <<>>
    ELSE LET v == h[i] * prime64Low
                  + (IF i > prime64Shift THEN h[i - prime64Shift] ELSE 0) + carry
         IN  <<(v % 256)>> \o MulCarry(h, i + 1, (v \div 256))

MulPrime(h) == MulCarry(h, 1, 0)

RECURSIVE Write(_, _)
Write(h, data) ==
    IF data = <<>> THEN h ELSE Write(MulPrime(XorByte(h, Head(data))), Tail(data))

hashId(id) == Write(offset64, id)

\* objectIdHash % uint64(n), for n > 0
RECURSIVE ModFrom(_, _, _, _)
ModFrom(h, i, n, acc) ==
    IF i = 0 THEN acc ELSE ModFrom(h, i - 1, n, ((acc * 256) + h[i]) % n)

Mod64(h, n) == ModFrom(h, 8, n, 0)

\* ---------------------------------------------------------------------------
\* The Docker daemon: the containers it can run
\* ---------------------------------------------------------------------------

s3ContainerPrefix == <<"a", "m", "a", "z", "i", "n", "-", "o", "b", "j", "e", "c", "t", "-", "s", "t", "o", "r", "a", "g", "e", "-", "n", "o", "d", "e", "-">>

minioPort == <<"9", "0", "0", "0">>

minioAccessKey == <<"M", "I", "N", "I", "O", "_", "A", "C", "C", "E", "S", "S", "_", "K", "E", "Y", "=">>

minioSecret == <<"M", "I", "N", "I", "O", "_", "S", "E", "C", "R", "E", "T", "_", "K", "E", "Y", "=">>

\* A Minio container started by docker compose in project "deployment":
\* /deployment-amazin-object-storage-node-<n>-1, with credentials in its
\* environment.
ComposeNode(id, n) ==
    [ID       |-> id,
     Names    |-> << <<"/">> \o <<"d", "e", "p", "l", "o", "y", "m", "e", "n", "t">> \o <<"-">> \o s3ContainerPrefix \o n \o <<"-", "1">> >>,
     Name     |-> <<"/">> \o <<"d", "e", "p", "l", "o", "y", "m", "e", "n", "t">> \o <<"-">> \o s3ContainerPrefix \o n \o <<"-", "1">>,
     Env      |-> << minioAccessKey \o <<"a", "k">> \o n, minioSecret \o <<"s", "k">> \o n >>,
     Hostname |-> id,
     IPAddress |-> <<"ip">> \o n]

\* The containers of the model.
\*   node0, node1, node2   compose nodes 0, 1 and 2
\*   linked1               a node 1 started outside compose and reachable under
\*                         a second, linked name
\*   nodex                 a container that matches the prefix and whose
\*                         ordinal is not a number
\*   nokeys                a node 3 whose environment has no secret key
\*   gateway               the gateway's own container, which does not match
Pool ==
    { ComposeNode("node0", <<"0">>),
      ComposeNode("node1", <<"1">>),
      ComposeNode("node2", <<"2">>),
      [ID       |-> "linked1",
       Names    |-> << <<"/">> \o s3ContainerPrefix \o <<"1">>,
                       <<"/">> \o <<"g", "a", "t", "e", "w", "a", "y">> \o <<"/">> \o s3ContainerPrefix \o <<"1">> >>,
       Name     |-> <<"/">> \o s3ContainerPrefix \o <<"1">>,
       Env      |-> << minioAccessKey \o <<"a", "k", "l">>, minioSecret \o <<"s", "k", "l">> >>,
       Hostname |-> "linked1",
       IPAddress |-> <<"ip", "l">>],
      [ID       |-> "nodex",
       Names    |-> << <<"/">> \o s3ContainerPrefix \o <<"x">> >>,
       Name     |-> <<"/">> \o s3ContainerPrefix \o <<"x">>,
       Env      |-> << minioAccessKey \o <<"a", "k", "x">>, minioSecret \o <<"s", "k", "x">> >>,
       Hostname |-> "nodex",
       IPAddress |-> <<"ip", "x">>],
      [ComposeNode("nokeys", <<"3">>) EXCEPT
          !.Env = << minioAccessKey \o <<"a", "k", "3">> >>],
      [ID       |-> "gateway",
       Names    |-> << <<"/">> \o <<"d", "e", "p", "l", "o", "y", "m", "e", "n", "t">> \o <<"-">> \o <<"g", "a", "t", "e", "w", "a", "y">> \o <<"-", "1">> >>,
       Name     |-> <<"/">> \o <<"d", "e", "p", "l", "o", "y", "m", "e", "n", "t">> \o <<"-">> \o <<"g", "a", "t", "e", "w", "a", "y">> \o <<"-", "1">>,
       Env      |-> << <<"P", "O", "R", "T", "=", "3", "0", "0", "0">> >>,
       Hostname |-> "gateway",
       IPAddress |-> <<"ip", "g">>] }

ContainerIds == { c.ID : c \in Pool }

\* The decimal digits of a natural number.
RECURSIVE Decimal(_)
Decimal(n) ==
    IF n < 10 THEN <<ToString(n)>> ELSE Append(Decimal(n \div 10), ToString(n % 10))

\* The compose projects a node can be started in; <<>> is a node started
\* outside compose, whose name has no project part.
Projects ==
    { <<>>,
      <<"d", "e", "p", "l", "o", "y", "m", "e", "n", "t">>,
      <<"m", "y", "-", "p", "r", "o", "j">>,
      <<"a", "m", "a", "z", "i", "n">> }

\* The name [/][<project>-]amazin-object-storage-node-<n>[-<replica>];
\* replica 0 is a name without replica part.
ContainerName(slash, project, n, replica) ==
    (IF slash THEN <<"/">> ELSE <<>>)
    \o (IF project # <<>> THEN project \o <<"-">> ELSE <<>>)
    \o s3ContainerPrefix \o Decimal(n)
    \o (IF replica # 0 THEN <<"-">> \o Decimal(replica) ELSE <<>>)

\* What the daemon answers when a container of that name is inspected.
NamedContainer(name) ==
    [ID       |-> "named",
     Names    |-> <<name>>,
     Name     |-> name,
     Env      |-> << minioAccessKey \o <<"a", "k">>, minioSecret \o <<"s", "k">> >>,
     Hostname |-> "named",
     IPAddress |-> <<"ip">>]

Container(id) == CHOOSE c \in Pool : c.ID = id

\* The orders in which the daemon can list a set of running containers.
RECURSIVE ListingsOf(_)
ListingsOf(ids) ==
    IF ids = {} THEN { <<>> }
    ELSE UNION { { <<c>> \o rest : rest \in ListingsOf(ids \ {c}) } : c \in ids }

Listings ==
    UNION { ListingsOf(ids) : ids \in { r \in SUBSET ContainerIds : Cardinality(r) <= MaxRunning } }

\* Errors of the Docker client library.
ErrDocker == New("docker: daemon call failed")

\* ---------------------------------------------------------------------------
\* discovery.ServiceV1
\* ---------------------------------------------------------------------------

NoInstance ==
    [ContainerId |-> "", InstanceNum |-> 0, AccessKey |-> <<>>, SecretKey |-> <<>>,
     IpAddress |-> <<>>, Hostname |-> "", Port |-> <<>>]

\* The value of the last variable of env that starts with key, "" if none.
RECURSIVE EnvValue(_, _, _)
EnvValue(env, key, val) ==
    IF env = <<>> THEN val
    ELSE EnvValue(Tail(env), key,
                  IF HasPrefix(Head(env), key) THEN Split(Head(env), "=")[2] ELSE val)

\* getContainerDetails from the answer of the daemon on: derive the
\* S3Instance from the inspected container.
getContainerDetailsOf(inspectedContainer, containerId) ==
    LET containerName == Trim(inspectedContainer.Name, "/")
        nameParts == Split(containerName, "-")
        prefix == IF nameParts[1] # <<"a", "m", "a", "z", "i", "n">>
                  THEN nameParts[1] \o <<"-">> \o s3ContainerPrefix
                  ELSE s3ContainerPrefix
        instanceIdString == TrimSuffix(TrimPrefix(containerName, prefix), <<"-", "1">>)
        instanceId == Atoi(instanceIdString)
    IN  IF instanceId.err # nil
        THEN [instance |-> NoInstance,
              err |-> Wrap(instanceId.err, "failed to parse instance ID")]
        ELSE [instance |->
                [ContainerId |-> containerId,
                 InstanceNum |-> instanceId.val,
                 AccessKey   |-> EnvValue(inspectedContainer.Env, minioAccessKey, <<>>),
                 SecretKey   |-> EnvValue(inspectedContainer.Env, minioSecret, <<>>),
                 IpAddress   |-> inspectedContainer.IPAddress,
                 Hostname    |-> inspectedContainer.Hostname,
                 Port        |-> minioPort],
              err |-> nil]

\* getContainerDetails: inspect the container and derive its S3Instance.
\* fault names the library call that fails during this request.
getContainerDetails(containerId, fault) ==
    IF fault = "ContainerInspect"
    THEN [instance |-> NoInstance, err |-> Wrap(ErrDocker, "failed to inspect container")]
    ELSE getContainerDetailsOf(Container(containerId), containerId)

\* The inspection of every container of the model, computed once.
Details ==
    [id \in ContainerIds |->
        [fault \in {"none", "ContainerInspect"} |-> getContainerDetails(id, fault)]]

\* The container ids the two loops of DiscoverS3Instances visit, in order:
\* one visit per name of a listed container that contains the prefix.
RECURSIVE MatchingNames(_, _)
MatchingNames(containerId, names) ==
    IF names = <<>> THEN <<>>
    ELSE (IF Contains(Head(names), s3ContainerPrefix) THEN <<containerId>> ELSE <<>>)
         \o MatchingNames(containerId, Tail(names))

Matches == [id \in ContainerIds |-> MatchingNames(id, Container(id).Names)]

RECURSIVE Visits(_)
Visits(containers) ==
    IF containers = <<>> THEN <<>>
    ELSE Matches[Head(containers)] \o Visits(Tail(containers))

\* The body of the loops: the first container whose details fail ends the
\* discovery with that error. docker is the sequence of the calls made to
\* the daemon so far.
RECURSIVE DiscoverFrom(_, _, _, _)
DiscoverFrom(visits, fault, response, docker) ==
    IF visits = <<>> THEN [instances |-> response, err |-> nil, docker |-> docker]
    ELSE LET appendDetails(details) ==
                 IF details.err # nil
                 THEN [instances |-> <<>>, err |-> details.err,
                       docker |-> Append(docker, "ContainerInspect")]
                 ELSE DiscoverFrom(Tail(visits), fault, Append(response, details.instance),
                                   Append(docker, "ContainerInspect"))
         IN  appendDetails(Details[Head(visits)]
                                  [IF fault = "ContainerInspect" THEN fault ELSE "none"])

\* DiscoverS3Instances, for the list of running containers of the daemon.
DiscoverS3Instances(containers, fault) ==
    IF fault = "ContainerList"
    THEN [instances |-> <<>>, err |-> Wrap(ErrDocker, "failed to list containers"),
          docker |-> <<"ContainerList">>]
    ELSE DiscoverFrom(Visits(containers), fault, <<>>, <<"ContainerList">>)

\* ---------------------------------------------------------------------------
\* gateway.ServiceV1: routing
\* ---------------------------------------------------------------------------

\* "a" and "abc123"
ObjectIds == { <<97>>, <<97, 98, 99, 49, 50, 51>> }

ErrNoInstances == New("no instances available")

ErrInstanceNotFound == New("instance not found or unavailable")

\* The hash of every object id of the model, computed once.
Hashes == [id \in ObjectIds |-> hashId(id)]

\* The first instance of the list with the given number.
RECURSIVE FindInstance(_, _)
FindInstance(instances, instanceNum) ==
    IF instances = <<>> THEN [instance |-> NoInstance, err |-> ErrInstanceNotFound]
    ELSE IF Head(instances).InstanceNum = instanceNum
         THEN [instance |-> Head(instances), err |-> nil]
         ELSE FindInstance(Tail(instances), instanceNum)

\* SelectInstance without its test for an empty list: the division by the
\* length fails.
SelectInstanceNoEmptyTest(instances, objectId) ==
    IF Len(instances) = 0
    THEN [instance |-> NoInstance, err |-> New("runtime error: integer divide by zero")]
    ELSE FindInstance(instances, Mod64(Hashes[objectId], Len(instances)))

\* The routing step of shardObjectToInstance, on a discovered list.
SelectInstance(instances, objectId) ==
    IF Len(instances) = 0
    THEN [instance |-> NoInstance, err |-> ErrNoInstances]
    ELSE FindInstance(instances, Mod64(Hashes[objectId], Len(instances)))

\* shardObjectToInstance discovering a second time when the first discovery
\* fails.
shardObjectToInstanceRetrying(containers, objectId, fault) ==
    LET selected(instance, docker) ==
            [instance |-> instance.instance, err |-> instance.err, docker |-> docker]
        selectFrom(discovered, again) ==
            IF discovered.err = nil
            THEN selected(SelectInstance(discovered.instances, objectId), discovered.docker)
            ELSE IF again.err # nil
            THEN [instance |-> NoInstance, err |-> again.err,
                  docker |-> discovered.docker \o again.docker]
            ELSE selected(SelectInstance(again.instances, objectId),
                          discovered.docker \o again.docker)
    IN  selectFrom(DiscoverS3Instances(containers, fault),
                   DiscoverS3Instances(containers, "none"))

\* shardObjectToInstance: discover, then route on the discovered list.
shardObjectToInstance(containers, objectId, fault) ==
    LET selected(instance, docker) ==
            [instance |-> instance.instance, err |-> instance.err, docker |-> docker]
        selectFrom(discovered) ==
            IF discovered.err # nil
            THEN [instance |-> NoInstance, err |-> discovered.err,
                  docker |-> discovered.docker]
            ELSE selected(SelectInstance(discovered.instances, objectId), discovered.docker)
    IN  selectFrom(DiscoverS3Instances(containers, fault))

\* ---------------------------------------------------------------------------
\* s3.MinioClient, and the Minio server behind it
\* ---------------------------------------------------------------------------

Contents == {"A", "B"}

NoObject == "absent"

\* A Minio server holds at most the one bucket the gateway uses.
EmptyBackend == [bucket |-> FALSE, objects |-> [id \in ObjectIds |-> NoObject]]

ErrObjectNotFound == New("object not found")

\* Error responses of the Minio server, and a failure of the call itself.
ErrNoSuchKey == New("minio: NoSuchKey")

ErrBucketAlreadyOwnedByYou == New("minio: BucketAlreadyOwnedByYou")

ErrNoSuchBucket == New("minio: NoSuchBucket")

ErrMinio == New("minio: call failed")

\* minio.ToErrorResponse(err).StatusCode
StatusCode(err) ==
    IF err \in {ErrNoSuchKey, ErrNoSuchBucket} THEN 404 ELSE 500

\* NewMinioClient: minio.New makes no call; it rejects an empty endpoint.
NewMinioClient(instance) ==
    IF instance.Hostname = ""
    THEN [endpoint |-> "", err |-> Wrap(New("minio: invalid endpoint"), "failed to create Minio client")]
    ELSE [endpoint |-> instance.Hostname, err |-> nil]

\* The end of MinioClient.AddOrUpdateObject: what it returns for the error of
\* the PutObject call.
PutObjectReturn(err) ==
    IF err # nil
    THEN IF StatusCode(err) = 404 THEN ErrObjectNotFound ELSE nil
    ELSE nil

\* MinioClient.AddOrUpdateObject on one server. fault names the library call
\* that fails during this request ("none": no call fails).
MinioClientAddOrUpdateObject(backend, objectId, data, fault) ==
    IF fault = "BucketExists"
    THEN [backend |-> backend,
          err |-> Wrap(ErrMinio, "failed to check if bucket exists"),
          calls |-> <<"BucketExists">>]
    ELSE IF ~backend.bucket /\ fault = "MakeBucket"
    THEN [backend |-> backend,
          err |-> Wrap(ErrMinio, "failed to create a new bucket"),
          calls |-> <<"BucketExists", "MakeBucket">>]
    ELSE
    LET exists == [backend EXCEPT !.bucket = TRUE]
        calls == <<"BucketExists">>
                 \o (IF backend.bucket THEN <<>> ELSE <<"MakeBucket">>)
                 \o <<"PutObject">>
        putErr == CASE fault = "PutObject404" -> ErrNoSuchBucket
                    [] fault = "PutObject" -> ErrMinio
                    [] OTHER -> nil
    IN  [backend |-> IF putErr = nil
                     THEN [exists EXCEPT !.objects[objectId] = data]
                     ELSE exists,
         err |-> PutObjectReturn(putErr),
         calls |-> calls]

\* MinioClient.GetObject on one server. The library's GetObject sends
\* nothing; the request goes out with Stat, which reports a missing bucket
\* or key.
MinioClientGetObject(backend, objectId, fault) ==
    LET getErr == nil
        statErr == CASE fault = "Stat" -> ErrMinio
                     [] ~backend.bucket -> ErrNoSuchBucket
                     [] backend.objects[objectId] = NoObject -> ErrNoSuchKey
                     [] OTHER -> nil
    IN  IF getErr # nil
        THEN [body |-> NoObject,
              err |-> IF StatusCode(getErr) = 404 THEN ErrObjectNotFound
                      ELSE Wrap(getErr, "failed to get object from S3"),
              calls |-> <<"GetObject">>]
        ELSE IF statErr # nil
        THEN [body |-> NoObject,
              err |-> Wrap(statErr, "failed to get object from S3"),
              calls |-> <<"GetObject", "Stat">>]
        ELSE [body |-> backend.objects[objectId], err |-> nil,
              calls |-> <<"GetObject", "Stat">>]

\* Byte-wise order of two keys.
RECURSIVE LexLess(_, _)
LexLess(x, y) ==
    IF x = <<>> THEN y # <<>>
    ELSE IF y = <<>> THEN FALSE
    ELSE Head(x) < Head(y) \/ (Head(x) = Head(y) /\ LexLess(Tail(x), Tail(y)))

\* The keys of a bucket, in the order the server lists them.
RECURSIVE KeysFrom(_, _)
KeysFrom(backend, ids) ==
    IF ids = {} THEN <<>>
    ELSE LET id == CHOOSE x \in ids : \A y \in ids \ {x} : LexLess(x, y)
         IN  (IF backend.objects[id] # NoObject THEN <<id>> ELSE <<>>)
             \o KeysFrom(backend, ids \ {id})

\* ctx.Err() once the context is done.
ErrCanceled == New("context canceled")

ErrDeadlineExceeded == New("context deadline exceeded")

\* The ways a listing call can be hit: an entry of the stream carries an
\* error, or the context of the request is done while the stream is drained.
CtxFaults == {"Canceled", "DeadlineExceeded"}

ListingFaults == {"none", "ListObjects"} \cup CtxFaults

\* The numbers of entries the loop can have received when ctx.Done() is
\* selected.
Received == {0, 1}

\* The entries client.ListObjects sends on its channel before closing it.
RECURSIVE ObjectInfos(_)
ObjectInfos(keys) ==
    IF keys = <<>> THEN <<>>
    ELSE <<[Key |-> Head(keys), Err |-> nil]>> \o ObjectInfos(Tail(keys))

ListObjects(backend, fault) ==
    IF fault = "ListObjects" THEN <<[Key |-> <<>>, Err |-> ErrMinio]>>
    ELSE IF ~backend.bucket THEN <<[Key |-> <<>>, Err |-> ErrNoSuchBucket]>>
    ELSE ObjectInfos(KeysFrom(backend, ObjectIds))

\* The for/select loop of MinioClient.GetObjects. received is the number of
\* entries still to be received before the case <-ctx.Done() is taken; it
\* is never taken when ctxErr is nil.
RECURSIVE GetObjectsLoop(_, _, _, _)
GetObjectsLoop(objectChan, ctxErr, received, objectIds) ==
    IF ctxErr # nil /\ received = 0
    THEN IF Is(ctxErr, ErrDeadlineExceeded)
         THEN [objectIds |-> <<>>, err |-> ctxErr]
         ELSE [objectIds |-> objectIds, err |-> nil]
    ELSE IF objectChan = <<>>
    THEN [objectIds |-> objectIds, err |-> nil]
    ELSE IF Head(objectChan).Err # nil
    THEN [objectIds |-> <<>>, err |-> Head(objectChan).Err]
    ELSE GetObjectsLoop(Tail(objectChan), ctxErr,
                        IF ctxErr # nil THEN received - 1 ELSE received,
                        Append(objectIds, Head(objectChan).Key))

\* MinioClient.GetObjects on one server: drain the listing, fail on the
\* first entry that carries an error, or stop when the context is done.
MinioClientGetObjects(backend, fault, received) ==
    GetObjectsLoop(ListObjects(backend, fault),
                   CASE fault = "Canceled" -> ErrCanceled
                     [] fault = "DeadlineExceeded" -> ErrDeadlineExceeded
                     [] OTHER -> nil,
                   received, <<>>)

\* ---------------------------------------------------------------------------
\* gateway.ServiceV1: the operations
\* ---------------------------------------------------------------------------

\* AddOrUpdateObject writing to the first discovered instance, whatever the
\* object id.
AddOrUpdateObjectFirstInstance(containers, store, objectId, data, fault) ==
    LET put(host, docker, written) ==
            [store |-> [store EXCEPT ![host] = written.backend],
             host |-> host,
             calls |-> <<"NewMinioClient">> \o written.calls,
             docker |-> docker,
             err |-> written.err]
        write(host, docker) ==
            put(host, docker, MinioClientAddOrUpdateObject(store[host], objectId, data, fault))
        first(discovered) ==
            IF discovered.err # nil \/ discovered.instances = <<>>
            THEN [store |-> store, host |-> "", calls |-> <<>>,
                  docker |-> discovered.docker,
                  err |-> Wrap(IF discovered.err # nil THEN discovered.err
                               ELSE ErrNoInstances,
                               "failed to assign object to instance")]
            ELSE write(NewMinioClient(discovered.instances[1]).endpoint, discovered.docker)
    IN  first(DiscoverS3Instances(containers, fault))

\* AddOrUpdateObject: route, create the client, write. store maps the host
\* name of every container to its Minio server.
AddOrUpdateObject(containers, store, objectId, data, fault) ==
    LET put(host, docker, written) ==
            [store |-> [store EXCEPT ![host] = written.backend],
             host |-> host,
             calls |-> <<"NewMinioClient">> \o written.calls,
             docker |-> docker,
             err |-> written.err]
        write(client, docker) ==
            IF client.err # nil
            THEN [store |-> store, host |-> "", calls |-> <<"NewMinioClient">>,
                  docker |-> docker, err |-> client.err]
            ELSE put(client.endpoint, docker,
                     MinioClientAddOrUpdateObject(store[client.endpoint], objectId,
                                                  data, fault))
        route(sharded) ==
            IF sharded.err # nil
            THEN [store |-> store, host |-> "", calls |-> <<>>, docker |-> sharded.docker,
                  err |-> Wrap(sharded.err, "failed to assign object to instance")]
            ELSE write(NewMinioClient(sharded.instance), sharded.docker)
    IN  route(shardObjectToInstance(containers, objectId, fault))

\* GetObject: route, create the client, read.
GetObject(containers, store, objectId, fault) ==
    LET got(host, docker, read) ==
            [body |-> read.body,
             host |-> host,
             calls |-> <<"NewMinioClient">> \o read.calls,
             docker |-> docker,
             err |-> Wrap(read.err, "failed to get object from S3")]
        get(client, docker) ==
            IF client.err # nil
            THEN [body |-> NoObject, host |-> "", calls |-> <<"NewMinioClient">>,
                  docker |-> docker, err |-> client.err]
            ELSE got(client.endpoint, docker,
                     MinioClientGetObject(store[client.endpoint], objectId, fault))
        route(sharded) ==
            IF sharded.err # nil
            THEN [body |-> NoObject, host |-> "", calls |-> <<>>, docker |-> sharded.docker,
                  err |-> Wrap(sharded.err, "failed to assign object to instance")]
            ELSE get(NewMinioClient(sharded.instance), sharded.docker)
    IN  route(shardObjectToInstance(containers, objectId, fault))

\* fmt.Sprintf(format, instance.InstanceNum)
Sprintf(format, instanceNum) == format \o ToString(instanceNum)

\* The fault that hits the listing call of position i of the discovered list
\* during a request: failing is the set of positions that are hit, by an
\* error entry or, when fault is one of CtxFaults, by the context being done.
ListingFault(fault, failing, i) ==
    IF i \notin failing THEN "none"
    ELSE IF fault \in CtxFaults THEN fault
    ELSE "ListObjects"

\* The entries received at position i before ctx.Done() is selected: the
\* context is done during the first call that is hit, and before any later
\* call starts.
ListingReceived(failing, received, i) ==
    IF i \in failing /\ \A j \in failing : i <= j THEN received ELSE 0

\* The loop of GetObjects over the discovered instances. calls is the
\* sequence of the storage calls made, events that of the listing calls
\* issued and returned, by position.
RECURSIVE GetObjectsFrom(_, _, _, _, _, _, _)
GetObjectsFrom(instances, i, store, fault, failing, received, sofar) ==
    IF i > Len(instances) THEN [sofar EXCEPT !.err = nil]
    ELSE LET client == NewMinioClient(instances[i])
             listed == MinioClientGetObjects(store[client.endpoint],
                           ListingFault(fault, failing, i),
                           ListingReceived(failing, received, i))
             called == [sofar EXCEPT !.calls = @ \o <<"NewMinioClient", "ListObjects">>,
                                     !.events = @ \o << <<"call", i>>, <<"return", i>> >>]
         IN  IF client.err # nil
             THEN [sofar EXCEPT
                      !.objectIds = <<>>,
                      !.calls = Append(@, "NewMinioClient"),
                      !.err = Wrap(client.err,
                                   Sprintf("unable to create s3 client for instance: ",
                                           instances[i].InstanceNum))]
             ELSE IF listed.err # nil
             THEN [called EXCEPT
                      !.objectIds = <<>>,
                      !.err = Wrap(listed.err,
                                   Sprintf("unable to list objectIds for instance: ",
                                           instances[i].InstanceNum))]
             ELSE GetObjectsFrom(instances, i + 1, store, fault, failing, received,
                                 [called EXCEPT !.objectIds = @ \o listed.objectIds])

\* GetObjects: discover, then list every instance in turn.
GetObjects(containers, store, fault, failing, received) ==
    LET none(docker) ==
            [objectIds |-> <<>>, err |-> nil, calls |-> <<>>, events |-> <<>>,
             docker |-> docker]
        listFrom(discovered) ==
            IF discovered.err # nil
            THEN [none(discovered.docker) EXCEPT !.err = discovered.err]
            ELSE GetObjectsFrom(discovered.instances, 1, store, fault, failing, received,
                                none(discovered.docker))
    IN  listFrom(DiscoverS3Instances(containers, fault))

\* ---------------------------------------------------------------------------
\* http.Server: the handlers' answer to the gateway's result
\* ---------------------------------------------------------------------------

ErrRequestTimeout == New("fiber: request timeout")

uploadStatus(err) ==
    CASE err = nil -> 201
      [] Is(err, ErrRequestTimeout) -> 503
      [] OTHER -> 500

downloadStatus(err) ==
    CASE err = nil -> 200
      [] Is(err, ErrObjectNotFound) -> 404
      [] Is(err, ErrRequestTimeout) -> 503
      [] OTHER -> 500

listStatus(err) ==
    CASE err = nil -> 200
      [] Is(err, ErrRequestTimeout) -> 503
      [] OTHER -> 500

\* ---------------------------------------------------------------------------
\* The system: a Docker daemon with its running containers, the Minio
\* servers, and the request the gateway served last.
\* ---------------------------------------------------------------------------

VARIABLES
    containers, \* the ids of the running containers, in the daemon's list order
    store,      \* host name -> the Minio server of that container
    last,       \* the last request served, and its outcome
    async,      \* the GetObjectsAsync call in progress
    uploads,    \* the AddOrUpdateObject calls that run concurrently
    inspected   \* the last container inspected by name, and its details

vars == <<containers, store, last, async, uploads, inspected>>

PutFaults ==
    {"none", "ContainerList", "BucketExists", "MakeBucket", "PutObject404", "PutObject"}

GetFaults == {"none", "ContainerList", "Stat"}

DiscoveryFaults == {"none", "ContainerList", "ContainerInspect"}

\* What a GET remembers of the PUT of the same object that it follows.
NoPut == [data |-> NoObject, host |-> "", replaced |-> NoObject]

\* last.put, for a GET of objectId: the PUT of objectId that returned no
\* error and since which only GETs of objectId were served, if there is one.
PutBefore(objectId) ==
    IF last.objectId # objectId THEN NoPut
    ELSE IF last.op = "AddOrUpdateObject" /\ last.err = nil
         THEN [data |-> last.data, host |-> last.host, replaced |-> last.replaced]
    ELSE IF last.op = "GetObject" THEN last.put
    ELSE NoPut

NoRequest ==
    [op |-> "none", objectId |-> <<>>, data |-> NoObject, fault |-> "none", failing |-> {},
     received |-> 0, instances |-> <<>>, err |-> nil, status |-> 0, host |-> "",
     calls |-> <<>>, docker |-> <<>>, events |-> <<>>, observed |-> nil,
     replaced |-> NoObject, body |-> NoObject, objectIds |-> <<>>, put |-> NoPut]

\* The host names of the instances a discovery returned.
HostsOf(instances) == [i \in 1..Len(instances) |-> instances[i].Hostname]

Idle ==
    [pc |-> "idle", instances |-> <<>>, workers |-> <<>>, listed |-> <<>>, failing |-> {},
     ctx |-> "none", observed |-> nil, objectIds |-> <<>>, objectIdMutex |-> 0, errChan |-> <<>>,
     cap |-> 0, wg |-> 0]

\* The two callers of the concurrent AddOrUpdateObject calls, and what each
\* uploads.
Callers == {"first", "second"}

CallerData == [c \in Callers |-> IF c = "first" THEN "A" ELSE "B"]

\* A caller's AddOrUpdateObject call: where it is, the instance selected,
\* whether BucketExists answered that the bucket is missing, what it returned.
NotCalled ==
    [pc |-> "idle", objectId |-> <<>>, host |-> "", missing |-> FALSE, err |-> nil]

\* No container was inspected by name.
NotInspected ==
    [n |-> 0, project |-> <<>>, replica |-> 0, name |-> <<>>, instance |-> NoInstance,
     err |-> nil, called |-> FALSE]

Init ==
    /\ containers \in Listings
    /\ store = [h \in ContainerIds |-> EmptyBackend]
    /\ last = NoRequest
    /\ async = Idle
    /\ uploads = [c \in Callers |-> NotCalled]
    /\ inspected = NotInspected

\* PUT /object/:id
uploadHandler(objectId, data, fault) ==
    /\ async.pc = "idle"
    /\ \E res \in {AddOrUpdateObject(containers, store, objectId, data, fault)} :
           /\ store' = res.store
           /\ last' = [NoRequest EXCEPT
                          !.op = "AddOrUpdateObject", !.objectId = objectId,
                          !.data = data, !.fault = fault,
                          !.instances = HostsOf(DiscoverS3Instances(containers, fault).instances),
                          !.err = res.err, !.status = uploadStatus(res.err),
                          !.host = res.host, !.calls = res.calls, !.docker = res.docker,
                          !.replaced = IF res.host = "" THEN NoObject
                                       ELSE store[res.host].objects[objectId]]
    /\ UNCHANGED <<containers, async, uploads, inspected>>

\* GET /object/:id served from the instance selected for the request
\* before, when that request was for the same object: no discovery, no
\* routing.
downloadHandlerReusingSelection(objectId, fault) ==
    /\ async.pc = "idle"
    /\ \E res \in {GetObject(containers, store, objectId, fault)} :
           LET reused == last.host # "" /\ last.objectId = objectId
               read == MinioClientGetObject(store[last.host], objectId, fault)
           IN  last' = [NoRequest EXCEPT
                           !.op = "GetObject", !.objectId = objectId, !.fault = fault,
                           !.instances = IF reused THEN last.instances
                                         ELSE HostsOf(DiscoverS3Instances(containers, fault).instances),
                           !.err = IF reused
                                   THEN Wrap(read.err, "failed to get object from S3")
                                   ELSE res.err,
                           !.status = downloadStatus(IF reused THEN read.err ELSE res.err),
                           !.host = IF reused THEN last.host ELSE res.host,
                           !.calls = IF reused THEN <<"NewMinioClient">> \o read.calls
                                     ELSE res.calls,
                           !.docker = IF reused THEN <<>> ELSE res.docker,
                           !.body = IF reused THEN read.body ELSE res.body,
                           !.put = PutBefore(objectId)]
    /\ UNCHANGED <<containers, store, async, uploads, inspected>>

\* GET /object/:id
downloadHandler(objectId, fault) ==
    /\ async.pc = "idle"
    /\ \E res \in {GetObject(containers, store, objectId, fault)} :
           last' = [NoRequest EXCEPT
                       !.op = "GetObject", !.objectId = objectId, !.fault = fault,
                       !.instances = HostsOf(DiscoverS3Instances(containers, fault).instances),
                       !.err = res.err, !.status = downloadStatus(res.err),
                       !.host = res.host, !.calls = res.calls, !.docker = res.docker,
                       !.body = res.body,
                       !.put = PutBefore(objectId)]
    /\ UNCHANGED <<containers, store, async, uploads, inspected>>

\* The inputs of a listing request that describe one course of events: an
\* error entry hits any set of positions; a context that is done stays done,
\* so it hits every position from the first one hit, and only then does
\* received matter.
ListingCourse(fault, failing, received, n) ==
    /\ failing \subseteq 1..n
    /\ fault \in CtxFaults =>
          /\ failing # {}
          /\ \A i \in failing, j \in 1..n : i <= j => j \in failing
    /\ fault \notin CtxFaults => received = 0
    /\ fault \in {"ContainerList", "ContainerInspect"} => failing = {}

\* GET /objects
listHandler(fault, failing, received) ==
    /\ async.pc = "idle"
    /\ ListingCourse(fault, failing, received, Len(Visits(containers)))
    /\ \E res \in {GetObjects(containers, store, fault, failing, received)} :
           last' = [NoRequest EXCEPT
                       !.op = "GetObjects", !.fault = fault, !.failing = failing,
                       !.received = received,
                       !.instances = HostsOf(DiscoverS3Instances(containers, fault).instances),
                       !.err = res.err, !.status = listStatus(res.err),
                       !.calls = res.calls, !.docker = res.docker, !.events = res.events,
                       !.objectIds = res.objectIds]
    /\ UNCHANGED <<containers, store, async, uploads, inspected>>

\* GetObjectsAsync, up to the start of the workers, with an error channel
\* that has no buffer: make(chan error).
GetObjectsAsyncStartUnbuffered(fault) ==
    /\ async.pc = "idle"
    /\ \E discovered \in {DiscoverS3Instances(containers, fault)} :
           IF discovered.err # nil
           THEN /\ last' = [NoRequest EXCEPT !.op = "GetObjectsAsync", !.fault = fault,
                                             !.docker = discovered.docker,
                                             !.err = discovered.err]
                /\ async' = async
           ELSE /\ last' = [NoRequest EXCEPT !.op = "GetObjectsAsync", !.fault = fault,
                                             !.docker = discovered.docker,
                                             !.instances = HostsOf(discovered.instances)]
                /\ async' = [Idle EXCEPT !.pc = "wait",
                                         !.instances = discovered.instances,
                                         !.workers = [i \in 1..Len(discovered.instances) |-> "go"],
                                         !.listed = [i \in 1..Len(discovered.instances) |-> <<>>],
                                         !.cap = 0,
                                         !.wg = Len(discovered.instances)]
    /\ UNCHANGED <<containers, store, uploads, inspected>>

\* GetObjectsAsync, up to the start of the workers: discover, make the
\* channel, start one goroutine for each instance.
GetObjectsAsyncStart(fault) ==
    /\ async.pc = "idle"
    /\ \E discovered \in {DiscoverS3Instances(containers, fault)} :
           IF discovered.err # nil
           THEN /\ last' = [NoRequest EXCEPT !.op = "GetObjectsAsync", !.fault = fault,
                                             !.docker = discovered.docker,
                                             !.err = discovered.err]
                /\ async' = async
           ELSE /\ last' = [NoRequest EXCEPT !.op = "GetObjectsAsync", !.fault = fault,
                                             !.docker = discovered.docker,
                                             !.instances = HostsOf(discovered.instances)]
                /\ async' = [Idle EXCEPT !.pc = "wait",
                                         !.instances = discovered.instances,
                                         !.workers = [i \in 1..Len(discovered.instances) |-> "go"],
                                         !.listed = [i \in 1..Len(discovered.instances) |-> <<>>],
                                         !.cap = Len(discovered.instances),
                                         !.wg = Len(discovered.instances)]
    /\ UNCHANGED <<containers, store, uploads, inspected>>

\* A worker creates its client and lists its instance; on an error it sends
\* the error to the channel and ends. fault is what hits its listing call:
\* once the context of the request is done, it is done for every worker that
\* lists later.
WorkerList(i, fault, received) ==
    /\ async.pc = "wait"
    /\ async.workers[i] = "go"
    /\ async.ctx # "none" => (fault = async.ctx /\ received = 0)
    /\ fault \notin CtxFaults => received = 0
    /\ LET client == NewMinioClient(async.instances[i])
           listed == MinioClientGetObjects(store[client.endpoint], fault, received)
           err == IF client.err # nil
                  THEN Wrap(client.err,
                            Sprintf("unable to create s3 client for instance: ",
                                    async.instances[i].InstanceNum))
                  ELSE Wrap(listed.err,
                            Sprintf("unable to list objectIds for instance: ",
                                    async.instances[i].InstanceNum))
           hit == IF fault # "none" \/ err # nil THEN {i} ELSE {}
           ctx == IF fault \in CtxFaults THEN fault ELSE async.ctx
       IN  IF err # nil
           THEN /\ Len(async.errChan) < async.cap
                /\ async' = [async EXCEPT !.errChan = Append(@, err),
                                            !.observed = IF @ = nil THEN err ELSE @,
                                            !.workers[i] = "done",
                                            !.failing = @ \cup hit,
                                            !.ctx = ctx,
                                            !.wg = @ - 1]
           ELSE async' = [async EXCEPT !.listed[i] = listed.objectIds,
                                       !.workers[i] = "listed",
                                       !.failing = @ \cup hit,
                                       !.ctx = ctx]
    /\ UNCHANGED <<containers, store, last, uploads, inspected>>

\* The worker enters the section that appends without objectIdMutex: no
\* Lock() call.
WorkerLockNoMutex(i) ==
    /\ async.pc = "wait"
    /\ async.workers[i] = "listed"
    /\ async' = [async EXCEPT !.workers[i] = "locked"]
    /\ UNCHANGED <<containers, store, last, uploads, inspected>>

\* objectIdMutex.Lock()
WorkerLock(i) ==
    /\ async.pc = "wait"
    /\ async.workers[i] = "listed"
    /\ async.objectIdMutex = 0
    /\ async' = [async EXCEPT !.objectIdMutex = i, !.workers[i] = "locked"]
    /\ UNCHANGED <<containers, store, last, uploads, inspected>>

\* objectIds = append(objectIds, objects...); objectIdMutex.Unlock(); wg.Done()
WorkerAppend(i) ==
    /\ async.pc = "wait"
    /\ async.workers[i] = "locked"
    /\ async' = [async EXCEPT !.objectIds = @ \o async.listed[i],
                              !.objectIdMutex = 0,
                              !.workers[i] = "done",
                              !.wg = @ - 1]
    /\ UNCHANGED <<containers, store, last, uploads, inspected>>

\* wg.Wait() returns; the channel is closed and read: the first error in
\* it is returned, otherwise the collected ids.
GetObjectsAsyncReturn ==
    /\ async.pc = "wait"
    /\ async.wg = 0
    /\ last' = [last EXCEPT !.failing = async.failing,
                            !.observed = async.observed,
                            !.fault = IF async.ctx # "none" THEN async.ctx ELSE @,
                            !.err = IF async.errChan # <<>> THEN Head(async.errChan)
                                    ELSE nil,
                            !.objectIds = IF async.errChan # <<>> THEN <<>>
                                          ELSE async.objectIds]
    /\ async' = Idle
    /\ UNCHANGED <<containers, store, uploads, inspected>>

\* A container is started: the daemon lists it first.
ContainerStart(c) ==
    /\ async.pc = "idle"
    /\ c \notin Range(containers)
    /\ Len(containers) < MaxRunning
    /\ containers' = <<c>> \o containers
    /\ UNCHANGED <<store, last, async, uploads, inspected>>

\* A container is stopped: the daemon lists it no more. Its Minio server
\* keeps its objects for the next start.
ContainerStop(c) ==
    /\ async.pc = "idle"
    /\ containers' = SelectSeq(containers, LAMBDA x : x # c)
    /\ containers' # containers
    /\ UNCHANGED <<store, last, async, uploads, inspected>>

\* A caller's AddOrUpdateObject begins: it routes the object and creates the
\* client.
AddOrUpdateObjectStart(c, objectId) ==
    /\ uploads[c].pc = "idle"
    /\ \E sharded \in {shardObjectToInstance(containers, objectId, "none")} :
       \E client \in {NewMinioClient(sharded.instance)} :
           uploads' = [uploads EXCEPT ![c] =
               IF sharded.err # nil
               THEN [NotCalled EXCEPT
                        !.pc = "done", !.objectId = objectId,
                        !.err = Wrap(sharded.err, "failed to assign object to instance")]
               ELSE IF client.err # nil
               THEN [NotCalled EXCEPT !.pc = "done", !.objectId = objectId,
                                      !.err = client.err]
               ELSE [NotCalled EXCEPT !.pc = "BucketExists", !.objectId = objectId,
                                      !.host = client.endpoint]]
    /\ UNCHANGED <<containers, store, last, async, inspected>>

\* exists, err := c.client.BucketExists(ctx, bucketName)
BucketExists(c) ==
    /\ uploads[c].pc = "BucketExists"
    /\ uploads' = [uploads EXCEPT
                      ![c].missing = ~store[uploads[c].host].bucket,
                      ![c].pc = IF store[uploads[c].host].bucket THEN "PutObject"
                                ELSE "MakeBucket"]
    /\ UNCHANGED <<containers, store, last, async, inspected>>

\* err = c.client.MakeBucket(ctx, bucketName, ...): the server refuses to
\* make a bucket that exists.
MakeBucket(c) ==
    /\ uploads[c].pc = "MakeBucket"
    /\ IF store[uploads[c].host].bucket
       THEN /\ uploads' = [uploads EXCEPT
                              ![c].pc = "done",
                              ![c].err = Wrap(ErrBucketAlreadyOwnedByYou,
                                              "failed to create a new bucket")]
            /\ store' = store
       ELSE /\ uploads' = [uploads EXCEPT ![c].pc = "PutObject"]
            /\ store' = [store EXCEPT ![uploads[c].host].bucket = TRUE]
    /\ UNCHANGED <<containers, last, async, inspected>>

\* _, err = c.client.PutObject(ctx, bucketName, objectId, data, ...)
PutObject(c) ==
    /\ uploads[c].pc = "PutObject"
    /\ store' = [store EXCEPT
                    ![uploads[c].host].objects[uploads[c].objectId] = CallerData[c]]
    /\ uploads' = [uploads EXCEPT ![c].pc = "done", ![c].err = PutObjectReturn(nil)]
    /\ UNCHANGED <<containers, last, async, inspected>>

\* getContainerDetails of a container with the name of node n, project and
\* replica given.
getContainerDetailsNamed(slash, project, n, replica) ==
    /\ \E name \in {ContainerName(slash, project, n, replica)} :
       \E details \in {getContainerDetailsOf(NamedContainer(name), "named")} :
           inspected' = [n |-> n, project |-> project, replica |-> replica,
                         name |-> name, instance |-> details.instance,
                         err |-> details.err, called |-> TRUE]
    /\ UNCHANGED <<containers, store, last, async, uploads>>

\* The object requests: PUT and GET of /object/:id.
Next ==
    \/ \E objectId \in ObjectIds, data \in Contents, fault \in PutFaults :
          uploadHandler(objectId, data, fault)
    \/ \E objectId \in ObjectIds, fault \in GetFaults :
          downloadHandler(objectId, fault)

Spec == Init /\ [][Next]_vars

\* The listings: objects are uploaded, and listed by GetObjects and by
\* GetObjectsAsync, whose workers run in any order.
NextListing ==
    \/ \E objectId \in ObjectIds : uploadHandler(objectId, "A", "none")
    \/ \E fault \in DiscoveryFaults \cup CtxFaults,
          failing \in SUBSET (1..Len(Visits(containers))), received \in Received :
          listHandler(fault, failing, received)
    \/ \E fault \in DiscoveryFaults : GetObjectsAsyncStart(fault)
    \/ \E i \in 1..Len(async.workers), fault \in ListingFaults, received \in Received :
          WorkerList(i, fault, received)
    \/ \E i \in 1..Len(async.workers) : WorkerLock(i)
    \/ \E i \in 1..Len(async.workers) : WorkerAppend(i)
    \/ GetObjectsAsyncReturn

SpecListing == Init /\ [][NextListing]_vars

\* The four operations of the gateway while the calls to the Docker daemon
\* can fail; the listing calls are hit by nothing but the context.
NextDiscovery ==
    \/ \E objectId \in ObjectIds, fault \in DiscoveryFaults :
          uploadHandler(objectId, "A", fault)
    \/ \E objectId \in ObjectIds, fault \in DiscoveryFaults :
          downloadHandler(objectId, fault)
    \/ \E fault \in DiscoveryFaults \cup CtxFaults,
          failing \in SUBSET (1..Len(Visits(containers))) :
          listHandler(fault, failing, 0)
    \/ \E fault \in DiscoveryFaults : GetObjectsAsyncStart(fault)
    \/ \E i \in 1..Len(async.workers) : WorkerList(i, "none", 0)
    \/ \E i \in 1..Len(async.workers) : WorkerLock(i)
    \/ \E i \in 1..Len(async.workers) : WorkerAppend(i)
    \/ GetObjectsAsyncReturn

SpecDiscovery == Init /\ [][NextDiscovery]_vars

\* "abc123", the object whose requests are followed while the containers
\* change.
FollowedIds == { id \in ObjectIds : id = <<97, 98, 99, 49, 50, 51>> }

\* The Minio nodes of the compose project, which are started and stopped.
ComposeIds == {"node0", "node1", "node2"}

\* The gateway is up before any node.
InitChanging == Init /\ containers = <<>>

\* The object requests while the set of running containers changes.
NextChanging ==
    \/ \E objectId \in FollowedIds : uploadHandler(objectId, "A", "none")
    \/ \E objectId \in FollowedIds : downloadHandler(objectId, "none")
    \/ \E c \in ComposeIds : ContainerStart(c)
    \/ \E c \in ComposeIds : ContainerStop(c)

SpecChanging == InitChanging /\ [][NextChanging]_vars

\* GetObjectsAsync alone: objects are uploaded, and listed by calls of
\* GetObjectsAsync whose workers run in any order and whose listing calls
\* succeed or fail.
NextAsync ==
    \/ \E objectId \in FollowedIds : uploadHandler(objectId, "A", "none")
    \/ \E fault \in DiscoveryFaults : GetObjectsAsyncStart(fault)
    \/ \E i \in 1..Len(async.workers), fault \in {"none", "ListObjects"} :
          WorkerList(i, fault, 0)
    \/ \E i \in 1..Len(async.workers) : WorkerLock(i)
    \/ \E i \in 1..Len(async.workers) : WorkerAppend(i)
    \/ GetObjectsAsyncReturn

SpecAsync == Init /\ [][NextAsync]_vars

\* The same with the scheduling of the Go runtime: a goroutine that can run
\* is run, and every listing call returns.
SpecAsyncFair ==
    /\ SpecAsync
    /\ WF_vars(\E i \in 1..Len(async.workers), fault \in {"none", "ListObjects"} :
                  WorkerList(i, fault, 0))
    /\ WF_vars(\E i \in 1..Len(async.workers) : WorkerLock(i))
    /\ WF_vars(\E i \in 1..Len(async.workers) : WorkerAppend(i))
    /\ WF_vars(GetObjectsAsyncReturn)

\* Two AddOrUpdateObject calls that run at the same time, each once.
NextRace ==
    \/ \E c \in Callers, objectId \in ObjectIds : AddOrUpdateObjectStart(c, objectId)
    \/ \E c \in Callers : BucketExists(c)
    \/ \E c \in Callers : MakeBucket(c)
    \/ \E c \in Callers : PutObject(c)

SpecRace == Init /\ [][NextRace]_vars

\* The names: containers of every name of the form are inspected.
NextNames ==
    \E slash \in BOOLEAN, project \in Projects, n \in 0..MaxOrdinal,
       replica \in 0..MaxReplica :
        getContainerDetailsNamed(slash, project, n, replica)

SpecNames == InitChanging /\ [][NextNames]_vars

\* ---------------------------------------------------------------------------
\* Properties
\* ---------------------------------------------------------------------------

\* The number of times x occurs in seq.
RECURSIVE Count(_, _)
Count(x, seq) ==
    IF seq = <<>> THEN 0 ELSE (IF Head(seq) = x THEN 1 ELSE 0) + Count(x, Tail(seq))

ObjectRequest == last.op \in {"AddOrUpdateObject", "GetObject"}

\* The request's discovery reached the daemon and got its answer.
DiscoveryAnswered == last.fault \notin {"ContainerList", "ContainerInspect"}

\* The least number of a non-empty set of numbers.
Min(S) == CHOOSE k \in S : \A j \in S : k <= j

\* C1: a GET that follows a PUT of the same id that returned success, with
\* no call failing during the GET, returns the bytes of that PUT.
C1_RoundTrip ==
    (last.op = "GetObject" /\ last.fault = "none" /\ last.put # NoPut)
        => (last.err = nil /\ last.body = last.put.data)

\* C2: whenever discovery returns a non-empty list, routing selects one of
\* its instances and returns no error.
C2_RoutingTotal ==
    (ObjectRequest /\ DiscoveryAnswered /\ last.instances # <<>>)
        => last.host \in Range(last.instances)

C4_OrderIndependent ==
    (ObjectRequest /\ DiscoveryAnswered)
        => LET found == DiscoverS3Instances(containers, "none").instances
           IN  \A p \in ListingsOf(1..Len(found)) :
                  SelectInstance([i \in 1..Len(found) |-> found[p[i]]],
                                 last.objectId).instance.Hostname = last.host

\* C5: a GET of an id that no server holds, with a non-empty discovered list
\* and no call failing, returns ErrObjectNotFound and is answered 404.
C5_NotFound ==
    (/\ last.op = "GetObject"
     /\ last.fault = "none"
     /\ last.instances # <<>>
     /\ \A h \in ContainerIds : store[h].objects[last.objectId] = NoObject)
        => (Is(last.err, ErrObjectNotFound) /\ last.status = 404)

\* C6: a PUT of an id its server already holds returns no error unless a
\* call fails, and a GET that follows a successful PUT which replaced an
\* object returns the new bytes.
C6_Overwrite ==
    /\ (last.op = "AddOrUpdateObject" /\ last.fault = "none" /\ last.replaced # NoObject)
           => last.err = nil
    /\ (last.op = "GetObject" /\ last.fault = "none" /\ last.put.replaced # NoObject)
           => (last.err = nil /\ last.body = last.put.data)

\* C7: when discovery returns an empty list, routing fails with the
\* no-instances error for every id, and a PUT or GET returns that error
\* having created no client and made no storage call.
C7_EmptySet ==
    (/\ DiscoverS3Instances(containers, "none").instances = <<>>
     /\ DiscoverS3Instances(containers, "none").err = nil)
        => /\ \A id \in ObjectIds :
                 shardObjectToInstance(containers, id, "none").err = ErrNoInstances
           /\ (ObjectRequest /\ DiscoveryAnswered)
                 => (/\ Is(last.err, ErrNoInstances)
                     /\ last.calls = <<>>
                     /\ last.host = "")

\* A PUT was served while a container ran and none of the running containers
\* was a Minio node.
C7_Witness ==
    /\ last.op = "AddOrUpdateObject"
    /\ last.fault = "none"
    /\ containers # <<>>
    /\ last.instances = <<>>
    /\ Is(last.err, ErrNoInstances)

\* C8: a PUT whose put-object call failed returns an error, and a PUT that
\* returns no error has stored its bytes on the selected server.
C8_PutFailureSurfaced ==
    last.op = "AddOrUpdateObject"
        => /\ (last.fault \in {"PutObject", "PutObject404"} /\ "PutObject" \in Range(last.calls))
                => last.err # nil
           /\ last.err = nil => store[last.host].objects[last.objectId] = last.data

\* The hosts of the visited containers whose details parse, in visit order.
RECURSIVE ValidHosts(_)
ValidHosts(visits) ==
    IF visits = <<>> THEN <<>>
    ELSE (IF Details[Head(visits)]["none"].err = nil
          THEN <<Details[Head(visits)]["none"].instance.Hostname>> ELSE <<>>)
         \o ValidHosts(Tail(visits))

\* C9: when a matched container is malformed and others are valid, the
\* discovery of a request returns the descriptors of all the valid ones.
C9_PartialDiscovery ==
    (/\ last.op # "none"
     /\ DiscoveryAnswered
     /\ ValidHosts(Visits(containers)) # <<>>
     /\ Len(ValidHosts(Visits(containers))) < Len(Visits(containers)))
        => /\ DiscoverS3Instances(containers, "none").err = nil
           /\ last.instances = ValidHosts(Visits(containers))

\* C10: a listing that returned no error, over servers that hold pairwise
\* disjoint sets of ids, contains every id of every discovered server once.
C10_ListingUnion ==
    (/\ last.op \in {"GetObjects", "GetObjectsAsync"}
     /\ async.pc = "idle"
     /\ DiscoveryAnswered
     /\ last.failing = {}
     /\ last.err = nil
     /\ \A g, h \in Range(last.instances) :
           g # h => \A id \in ObjectIds :
                       store[g].objects[id] = NoObject \/ store[h].objects[id] = NoObject)
        => \A id \in ObjectIds :
              Count(id, last.objectIds) =
                 IF \E h \in Range(last.instances) : store[h].objects[id] # NoObject
                 THEN 1 ELSE 0

\* The positions of the discovered list whose listing call fails during the
\* last GetObjects request, were it made: those the request's fault hits and
\* those whose server has no bucket.
FailingCalls ==
    { i \in 1..Len(last.instances) :
         i \in last.failing \/ ~store[last.instances[i]].bucket }

\* The error GetObjects returns when the call at position k is the first to
\* fail.
ListingErrorAt(k) ==
    Wrap(IF k \notin last.failing THEN ErrNoSuchBucket
         ELSE IF last.fault = "Canceled" THEN ErrCanceled
         ELSE IF last.fault = "DeadlineExceeded" THEN ErrDeadlineExceeded
         ELSE ErrMinio,
         Sprintf("unable to list objectIds for instance: ",
                 DiscoverS3Instances(containers, "none").instances[k].InstanceNum))

\* C11: a listing during which the listing call of a discovered server
\* fails returns an error and no ids; the error is that of the first call
\* that failed: by position for GetObjects, by time for GetObjectsAsync.
C11_ListingError ==
    /\ (last.op = "GetObjects" /\ DiscoveryAnswered /\ FailingCalls # {})
           => (/\ last.err = ListingErrorAt(Min(FailingCalls))
               /\ last.objectIds = <<>>)
    /\ (/\ last.op = "GetObjectsAsync"
        /\ async.pc = "idle"
        /\ DiscoveryAnswered
        /\ last.failing # {})
           => (/\ last.err # nil
               /\ last.err = last.observed
               /\ last.objectIds = <<>>)

\* C16: a listing call of MinioClient.GetObjects whose context is done
\* while it drains the stream returns the ids it has received and the
\* error of the context. Stated for the first call the done context hits
\* during the last GetObjects request.
C16_ListingCancellation ==
    (/\ last.op = "GetObjects"
     /\ last.fault \in CtxFaults
     /\ <<"call", Min(last.failing)>> \in Range(last.events))
        => LET backend == store[last.instances[Min(last.failing)]]
               keys == KeysFrom(backend, ObjectIds)
               result == MinioClientGetObjects(backend, last.fault, last.received)
           IN  (backend.bucket /\ last.received <= Len(keys))
                  => (/\ result.err # nil
                      /\ Is(result.err, IF last.fault = "Canceled" THEN ErrCanceled
                                        ELSE ErrDeadlineExceeded)
                      /\ result.objectIds = SubSeq(keys, 1, last.received))

\* The request's discovery made a call to the daemon that failed.
DiscoveryFailed ==
    /\ last.op # "none"
    /\ \/ last.fault = "ContainerList"
       \/ last.fault = "ContainerInspect" /\ Visits(containers) # <<>>

\* C12: when the container-list call or a container-inspect call fails,
\* DiscoverS3Instances returns the error and no instances, and the request
\* returns that error having made no storage call and no second discovery:
\* the daemon was asked for the list once, and for nothing after the call
\* that failed.
C12_DiscoveryFailure ==
    DiscoveryFailed
        => (/\ DiscoverS3Instances(containers, last.fault).err # nil
            /\ DiscoverS3Instances(containers, last.fault).instances = <<>>
            /\ Is(last.err, ErrDocker)
            /\ last.calls = <<>>
            /\ last.host = ""
            /\ last.body = NoObject
            /\ last.objectIds = <<>>
            /\ last.docker = IF last.fault = "ContainerList" THEN <<"ContainerList">>
                             ELSE <<"ContainerList", "ContainerInspect">>)

\* A GET was served while a Minio node ran and its inspection failed.
C12_Witness ==
    /\ last.op = "GetObject"
    /\ last.fault = "ContainerInspect"
    /\ Visits(containers) # <<>>
    /\ Is(last.err, ErrDocker)
    /\ last.docker = <<"ContainerList", "ContainerInspect">>
    /\ \E h \in Range(containers) : store[h].objects[last.objectId] # NoObject

\* C13: a PUT, GET or list request that fails because a call to the Docker
\* daemon failed, because no instance was discovered, or because the
\* context of the request was done, is answered 503.
C13_ServiceUnavailable ==
    (/\ last.op \in {"AddOrUpdateObject", "GetObject", "GetObjects"}
     /\ \/ Is(last.err, ErrDocker)
        \/ Is(last.err, ErrNoInstances)
        \/ Is(last.err, ErrDeadlineExceeded)
        \/ Is(last.err, ErrCanceled))
        => last.status = 503

\* C14: in the list a request's discovery returned, no two descriptors have
\* the same InstanceNum.
C14_UniqueInstanceNum ==
    (last.op # "none" /\ DiscoveryAnswered)
        => LET found == DiscoverS3Instances(containers, "none")
           IN  found.err = nil
                  => \A i, j \in 1..Len(found.instances) :
                        i # j => found.instances[i].InstanceNum # found.instances[j].InstanceNum

\* C18: over the non-empty list a request's discovery returned, every hash
\* residue 0..N-1 is routed to an instance, and different residues to
\* different instances, so that every instance of the list is selected by
\* some residue.
C18_NoBackendStarves ==
    (last.op # "none" /\ DiscoveryAnswered)
        => LET found == DiscoverS3Instances(containers, "none").instances
               N == Len(found)
           IN  /\ \A r \in 0..(N - 1) : FindInstance(found, r).err = nil
               /\ \A r, q \in 0..(N - 1) :
                     r # q => FindInstance(found, r).instance.Hostname
                                 # FindInstance(found, q).instance.Hostname
               /\ \A i \in 1..N : \E r \in 0..(N - 1) :
                     FindInstance(found, r).instance.Hostname = found[i].Hostname

\* The place of an event in a sequence of events, 0 if it is not there.
IndexOf(e, events) ==
    IF e \in Range(events) THEN Min({ k \in 1..Len(events) : events[k] = e }) ELSE 0

\* C17: in the listing GET /objects serves, when two listing calls or more
\* are made, some call is issued while an earlier one has not returned.
C17_ConcurrentFanOut ==
    (last.op = "GetObjects" /\ <<"call", 2>> \in Range(last.events))
        => \E i, j \in 1..Len(last.instances) :
              /\ i # j
              /\ IndexOf(<<"call", i>>, last.events) > 0
              /\ IndexOf(<<"call", i>>, last.events) < IndexOf(<<"call", j>>, last.events)
              /\ IndexOf(<<"call", j>>, last.events) < IndexOf(<<"return", i>>, last.events)

\* C20: every descriptor in the list a request's discovery returned has an
\* access key and a secret key.
C20_CredentialsRequired ==
    (last.op # "none" /\ DiscoveryAnswered)
        => LET found == DiscoverS3Instances(containers, "none")
           IN  \A i \in 1..Len(found.instances) :
                  /\ found.instances[i].AccessKey # <<>>
                  /\ found.instances[i].SecretKey # <<>>

\* The host shardObjectToInstance selects for objectId over the containers
\* that run now, "" when it returns an error.
HostNow(objectId) ==
    LET sharded == shardObjectToInstance(containers, objectId, "none")
    IN  IF sharded.err = nil THEN sharded.instance.Hostname ELSE ""

\* C19: every PUT and GET asks the daemon for the list of containers once,
\* and is served by the instance that routing selects over the containers
\* running when the request is made, whatever was selected before.
C19_FreshDiscovery ==
    /\ [](ObjectRequest => Count("ContainerList", last.docker) = 1)
    /\ [][ last' # last => last'.host = HostNow(last'.objectId) ]_vars

\* A GET was served by another instance than the one that holds the object
\* since the PUT before it: the set of containers changed in between.
C19_Witness ==
    /\ last.op = "GetObject"
    /\ last.put # NoPut
    /\ last.host # ""
    /\ last.host # last.put.host
    /\ store[last.put.host].objects[last.objectId] # NoObject

\* C15: when the two concurrent calls select the same instance and both
\* are told by BucketExists that the bucket is missing, both return no
\* error and the object of each is stored.
C15_BucketCreateRace ==
    (/\ \A c \in Callers : uploads[c].pc = "done" /\ uploads[c].missing
     /\ \A c, d \in Callers : uploads[c].host = uploads[d].host)
        => \A c \in Callers :
              /\ uploads[c].err = nil
              /\ store[uploads[c].host].objects[uploads[c].objectId] # NoObject

\* C21: for every container name [/][<project>-]amazin-object-storage-node-<N>
\* [-<replica>], getContainerDetails returns no error and InstanceNum = N.
C21_OrdinalParsing ==
    inspected.called => (inspected.err = nil /\ inspected.instance.InstanceNum = inspected.n)

\* The workers of the GetObjectsAsync call in progress that are between
\* Lock() and Unlock().
InCriticalSection == { i \in 1..Len(async.workers) : async.workers[i] = "locked" }

\* C22: in GetObjectsAsync at most one worker at a time is in the section
\* that appends to objectIds, and it is the one that holds objectIdMutex;
\* a worker that has not come back from creating its client and listing
\* its instance does not hold the mutex; objectIds changes only by the
\* worker in the section; and the caller reads objectIds only when every
\* worker has finished.
C22_AccumulatorLocking ==
    /\ [](Cardinality(InCriticalSection) <= 1)
    /\ [](\A i \in 1..Len(async.workers) :
              /\ async.workers[i] = "locked" <=> async.objectIdMutex = i
              /\ async.workers[i] = "go" => async.objectIdMutex # i)
    /\ [][ (async.pc = "wait" /\ async'.pc = "wait" /\ async'.objectIds # async.objectIds)
             => (/\ InCriticalSection # {}
                 /\ \A i \in InCriticalSection :
                       /\ async'.workers[i] = "done"
                       /\ async'.objectIds = async.objectIds \o async.listed[i]) ]_vars
    /\ [][ (async.pc = "wait" /\ async'.pc = "idle")
             => (/\ \A i \in 1..Len(async.workers) : async.workers[i] = "done"
                 /\ async.objectIdMutex = 0
                 /\ last'.objectIds \in {<<>>, async.objectIds}) ]_vars

\* A worker is in the section while another, that has listed its instance,
\* waits for the mutex, and ids were appended already.
C22_Witness ==
    /\ async.pc = "wait"
    /\ \E i, j \in 1..Len(async.workers) :
          /\ async.workers[i] = "locked"
          /\ async.workers[j] = "listed"
          /\ async.listed[i] # <<>>
          /\ async.listed[j] # <<>>

\* The workers of the GetObjectsAsync call in progress that have not
\* finished.
Running == { i \in 1..Len(async.workers) : async.workers[i] # "done" }

\* C23: GetObjectsAsync starts one worker for each discovered instance; the
\* error channel has room for the error of every worker that can still
\* send one, so that no send blocks; the wait group counts the workers that
\* have not finished, and the channel is closed, at the return, only when
\* all have; and with every listing call returning, a call that has
\* started its workers returns.
C23_FanInDeadlockFree ==
    /\ [](async.pc = "wait"
            => (/\ Len(async.workers) = Len(last.instances)
                /\ async.cap = Len(last.instances)
                /\ HostsOf(async.instances) = last.instances))
    /\ [](Len(async.errChan)
            + Cardinality({ i \in 1..Len(async.workers) : async.workers[i] = "go" })
                <= async.cap)
    /\ [](async.wg = Cardinality(Running))
    /\ [][ (async.pc = "wait" /\ async'.pc = "idle") => Running = {} ]_vars
    /\ (async.pc = "wait") ~> (async.pc = "idle")

\* Two workers or more were started and every one has failed: the channel
\* is full and the call is about to return.
C23_Witness ==
    /\ async.pc = "wait"
    /\ async.cap >= 2
    /\ Len(async.errChan) = async.cap
    /\ async.wg = 0

====
